---- MODULE Spec2Model ----
(***************************************************************************)
(* Content aggregation and query layer of the SJU ACM MCP server:          *)
(*   src/unnamed/part_000        environment validation (config/env)       *)
(*   src/app/utils/contentful.ts client handle and query resolvers         *)
(*   src/unnamed/part_001        MCP resources and tools (stats, query-*,  *)
(*                               search-content)                           *)
(* A JavaScript object is a function whose DOMAIN is the set of the        *)
(* properties it has: an absent (undefined) property is a name outside     *)
(* the DOMAIN.  A string that is searched is a sequence of characters.     *)
(***************************************************************************)
EXTENDS Integers, Sequences, FiniteSets, TLC

VARIABLES processEnv, proc, env, client, store, calls, handler, response

vars == <<processEnv, proc, env, client, store, calls, handler, response>>

(***************************************************************************)
(* Bounds of the model.                                                    *)
(***************************************************************************)
MaxItems == 2          \* longest varied listing of one content type
MaxCalls == 2          \* resolver calls an external caller has outstanding

(***************************************************************************)
(* Generic helpers.                                                        *)
(***************************************************************************)
Empty == [k \in {} |-> TRUE]

Has(obj, name) == name \in DOMAIN obj

Range(s) == {s[i] : i \in 1..Len(s)}

Min(a, b) == IF a < b THEN a ELSE b

Max(a, b) == IF a > b THEN a ELSE b

Reverse(s) == [i \in 1..Len(s) |-> s[Len(s) + 1 - i]]

SeqsUpTo(S, n) == UNION {[1..k -> S] : k \in 0..n}

\* Array.prototype.slice(0, end)
slice(s, end) ==
  IF end < 0 THEN SubSeq(s, 1, Max(Len(s) + end, 0))
             ELSE SubSeq(s, 1, Min(end, Len(s)))

\* Array.prototype.includes
arrayIncludes(s, x) == \E i \in 1..Len(s) : s[i] = x

\* String.prototype.toLowerCase, on the alphabet of the model
lowerChar(c) ==
  CASE c = "A" -> "a"
    [] c = "B" -> "b"
    [] c = "C" -> "c"
    [] OTHER -> c

toLowerCase(t) == [i \in 1..Len(t) |-> lowerChar(t[i])]

\* String.prototype.includes
includes(t, q) ==
  \E i \in 1..(Len(t) - Len(q) + 1) : SubSeq(t, i, i + Len(q) - 1) = q

(***************************************************************************)
(* Environment validation (config/env) and client initialization.          *)
(***************************************************************************)
EnvNames == {"REDIS_URL", "CONTENTFUL_SPACE_ID", "CONTENTFUL_ACCESS_TOKEN"}

\* a process environment: each variable is unset, empty or set
EnvValues == {"", "value"}

ProcessEnvs ==
  UNION {[S -> EnvValues] : S \in SUBSET EnvNames}

\* envSchema.parse: z.string() accepts any string, the empty one included,
\* and rejects undefined
envSchemaOk(pe) == \A n \in EnvNames : Has(pe, n)

\* !value of a string or undefined
falsy(obj, name) == ~Has(obj, name) \/ obj[name] = ""

credentialsMissing(e) ==
  falsy(e, "CONTENTFUL_SPACE_ID") \/ falsy(e, "CONTENTFUL_ACCESS_TOKEN")

(***************************************************************************)
(* The remote store: per content type, the raw entries in creation order.  *)
(***************************************************************************)
ContentTypes ==
  <<"blogPost", "meeting", "eboardMember", "hackathon",
    "landingPageGraphics", "parallaxBanner">>

StoreTypes == Range(ContentTypes) \cup {"upcomingMeeting"}

\* an ISO date <<year, month, day>> and new Date(d).getTime(), in days
getTime(d) == (d[1] * 12 + d[2]) * 31 + d[3]

Entry(id, flds) == [sys |-> [id |-> id], contentTypeId |-> "raw", fields |-> flds]

\* entries numbered in creation order
Entries(bags) == [i \in 1..Len(bags) |-> Entry(i, bags[i])]

fieldEquals(item, name, v) == Has(item.fields, name) /\ item.fields[name] = v

\* the store's [match] operator on a text field: the field holds the text
fieldMatches(item, name, v) == Has(item.fields, name) /\ includes(item.fields[name], v)

\* position of item i in the descending order of a field, entries without
\* the field last, ties in creation order
RankDesc(items, name, i) ==
  Cardinality({j \in 1..Len(items) :
     \/ /\ Has(items[j].fields, name)
        /\ \/ ~Has(items[i].fields, name)
           \/ getTime(items[j].fields[name]) > getTime(items[i].fields[name])
           \/ getTime(items[j].fields[name]) = getTime(items[i].fields[name]) /\ j < i
     \/ ~Has(items[j].fields, name) /\ ~Has(items[i].fields, name) /\ j < i})
  + 1

OrderDesc(items, name) ==
  [p \in 1..Len(items) |->
     items[CHOOSE i \in 1..Len(items) : RankDesc(items, name, i) = p]]

\* the store's answer to "list entries matching {content type, equality
\* filters, sort key, limit}"
listEntries(st, query) ==
  LET all == st[query.content_type]
      matching ==
        SelectSeq(all, LAMBDA item :
          /\ \A name \in DOMAIN query.filters :
               fieldEquals(item, name, query.filters[name])
          /\ Has(query, "match") =>
               \A name \in DOMAIN query.match :
                 fieldMatches(item, name, query.match[name]))
      ordered ==
        CASE query.order = "-sys.createdAt" -> Reverse(matching)
          [] query.order = "-fields.date" -> OrderDesc(matching, "date")
          [] query.order = "-fields.startDate" ->
               OrderDesc(matching, "startDate")
          [] OTHER -> matching
  IN  IF Has(query, "limit") THEN slice(ordered, query.limit) ELSE ordered

(***************************************************************************)
(* Query resolvers (app/utils/contentful.ts).  A resolver is given the     *)
(* outcome of its awaited client.getEntries call, resp = [ok, items], and  *)
(* yields [threw, val]: what it returns, or that it rejected.              *)
(***************************************************************************)
returns(v) == [threw |-> FALSE, val |-> v]

throws == [threw |-> TRUE, val |-> <<>>]

\* { contentTypeId: t, ...item }: the raw value wins
stamp_rawWins(item, t) ==
  [k \in DOMAIN item \cup {"contentTypeId"} |->
     IF k \in DOMAIN item THEN item[k] ELSE t]

\* { ...item, contentTypeId: t }
stamp(item, t) ==
  [k \in DOMAIN item \cup {"contentTypeId"} |->
     IF k = "contentTypeId" THEN t ELSE item[k]]

stampAll(items, t) == [i \in 1..Len(items) |-> stamp(items[i], t)]

PageLimit == 100

Statuses == {"ongoing", "upcoming", "past"}

Q(type, filters, order) ==
  [content_type |-> type, filters |-> filters, order |-> order]

\* the criteria each resolver hands to client.getEntries
QueryOf(fn, arg) ==
  CASE fn = "getAllPosts" -> Q("blogPost", Empty, "-sys.createdAt")
    [] fn = "getAllMeetings" -> Q("meeting", Empty, "-fields.date")
    [] fn = "getUpcomingMeetings" -> Q("upcomingMeeting", Empty, "-sys.createdAt")
    [] fn = "getParallaxBanners" -> Q("parallaxBanner", Empty, "-sys.createdAt")
    [] fn = "getCurrentEboardMembers" ->
         Q("eboardMember", "memberType" :> "current", "sys.createdAt")
    [] fn = "getPastEboardMembers" ->
         Q("eboardMember", "memberType" :> "past", "sys.createdAt")
    [] fn = "getAllHackathons" -> Q("hackathon", Empty, "-fields.startDate")
    [] fn = "getHackathonsByStatus" ->
         Q("hackathon", Empty, "none") @@ ("limit" :> PageLimit)
    [] fn = "getAllLandingPageGraphics" ->
         Q("landingPageGraphics", Empty, "sys.createdAt")
    [] fn = "getPostBySlug" ->
         Q("blogPost", Empty, "none") @@ ("match" :> ("slug" :> arg)) @@ ("limit" :> 1)
    [] fn = "getHackathonBySlug" ->
         Q("hackathon", Empty, "none") @@ ("limit" :> PageLimit)
    [] fn = "getLandingPageGraphicByTitle" ->
         Q("landingPageGraphics", "title" :> arg, "none") @@ ("limit" :> 1)

getAllPosts_rejects(resp) ==
  IF resp.ok THEN returns(stampAll(resp.items, "blogPost")) ELSE throws

getAllPosts(resp) ==
  IF resp.ok THEN returns(stampAll(resp.items, "blogPost")) ELSE returns(<<>>)

\* the comparator of getAllMeetings: dateB - dateA, NaN (an absent date)
\* counting as 0
compareDates(a, b) ==
  IF Has(a.fields, "date") /\ Has(b.fields, "date")
  THEN getTime(b.fields.date) - getTime(a.fields.date)
  ELSE 0

RECURSIVE insertSorted(_, _)
insertSorted(sorted, x) ==
  IF sorted = <<>> THEN <<x>>
  ELSE LET last == sorted[Len(sorted)]
       IN  IF compareDates(last, x) > 0
           THEN Append(insertSorted(SubSeq(sorted, 1, Len(sorted) - 1), x), last)
           ELSE Append(sorted, x)

RECURSIVE sortMeetings(_)
sortMeetings(items) ==
  IF items = <<>> THEN <<>>
  ELSE insertSorted(sortMeetings(SubSeq(items, 1, Len(items) - 1)),
                    items[Len(items)])

getAllMeetings(resp) ==
  IF resp.ok THEN returns(stampAll(sortMeetings(resp.items), "meeting"))
  ELSE returns(<<>>)

getUpcomingMeetings(resp) ==
  IF resp.ok THEN returns(stampAll(resp.items, "upcomingMeeting"))
  ELSE returns(<<>>)

\* the items reversed once more on the client
getParallaxBanners_reversed(resp) ==
  IF resp.ok THEN returns(stampAll(Reverse(resp.items), "parallaxBanner"))
  ELSE returns(<<>>)

getParallaxBanners(resp) ==
  IF resp.ok THEN returns(stampAll(resp.items, "parallaxBanner"))
  ELSE returns(<<>>)

getCurrentEboardMembers(resp) ==
  IF resp.ok THEN returns(stampAll(resp.items, "eboardMember"))
  ELSE returns(<<>>)

getPastEboardMembers(resp) ==
  IF resp.ok THEN returns(stampAll(resp.items, "eboardMember"))
  ELSE returns(<<>>)

getAllHackathons(resp) ==
  IF resp.ok THEN returns(stampAll(resp.items, "hackathon"))
  ELSE returns(<<>>)

itemStatus_past(item) ==
  IF falsy(item.fields, "status") THEN "past" ELSE item.fields.status

\* item.fields.status || "upcoming"
itemStatus(item) ==
  IF falsy(item.fields, "status") THEN "upcoming" ELSE item.fields.status

getHackathonsByStatus_storeFilter(status, resp) ==
  IF resp.ok
  THEN returns(stampAll(
         SelectSeq(resp.items, LAMBDA item : fieldEquals(item, "status", status)),
         "hackathon"))
  ELSE returns(<<>>)

getHackathonsByStatus(status, resp) ==
  IF resp.ok
  THEN returns(stampAll(
         SelectSeq(resp.items, LAMBDA item : itemStatus(item) = status),
         "hackathon"))
  ELSE returns(<<>>)

getAllLandingPageGraphics(resp) ==
  IF resp.ok THEN returns(stampAll(resp.items, "landingPageGraphics"))
  ELSE returns(<<>>)

\* null, the result of a lookup that found nothing
Null == [null |-> TRUE]

getPostBySlug_rejects(slug, resp) ==
  IF ~resp.ok THEN throws
  ELSE IF Len(resp.items) = 0 THEN returns(Null)
  ELSE returns(stamp(resp.items[1], "blogPost"))

getPostBySlug(slug, resp) ==
  IF ~resp.ok THEN returns(Null)
  ELSE IF Len(resp.items) = 0 THEN returns(Null)
  ELSE returns(stamp(resp.items[1], "blogPost"))

\* response.items.find(item => item.sys.id === slug)
getHackathonBySlug(slug, resp) ==
  IF ~resp.ok THEN returns(Null)
  ELSE LET found == SelectSeq(resp.items, LAMBDA item : item.sys.id = slug)
       IN  IF found = <<>> THEN returns(Null)
           ELSE returns(stamp(found[1], "hackathon"))

\* an asset (fields.image, fields.graphic) is an object that has a url
\* property when asset.fields.file.url is there
resolves(flds, name) == Has(flds, name) /\ Has(flds[name], "url")

\* image: item.fields.image || (hasGraphicField ? item.fields.graphic : undefined)
backfillImage(flds) ==
  IF Has(flds, "image") THEN flds
  ELSE IF Has(flds, "graphic") THEN flds @@ ("image" :> flds.graphic)
  ELSE flds

\* returns null before any remote call when a credential is missing
getLandingPageGraphicByTitle(title, resp) ==
  IF credentialsMissing(env) THEN returns(Null)
  ELSE IF ~resp.ok THEN returns(Null)
  ELSE IF Len(resp.items) = 0 THEN returns(Null)
  ELSE LET item == resp.items[1]
       IN  returns(stamp([item EXCEPT !.fields = backfillImage(item.fields)],
                         "landingPageGraphics"))

Resolve(fn, arg, resp) ==
  CASE fn = "getAllPosts" -> getAllPosts(resp)
    [] fn = "getAllMeetings" -> getAllMeetings(resp)
    [] fn = "getUpcomingMeetings" -> getUpcomingMeetings(resp)
    [] fn = "getParallaxBanners" -> getParallaxBanners(resp)
    [] fn = "getCurrentEboardMembers" -> getCurrentEboardMembers(resp)
    [] fn = "getPastEboardMembers" -> getPastEboardMembers(resp)
    [] fn = "getAllHackathons" -> getAllHackathons(resp)
    [] fn = "getHackathonsByStatus" -> getHackathonsByStatus(arg, resp)
    [] fn = "getAllLandingPageGraphics" -> getAllLandingPageGraphics(resp)
    [] fn = "getPostBySlug" -> getPostBySlug(arg, resp)
    [] fn = "getHackathonBySlug" -> getHackathonBySlug(arg, resp)
    [] fn = "getLandingPageGraphicByTitle" -> getLandingPageGraphicByTitle(arg, resp)

ListingCalls ==
  {<<fn, "-">> : fn \in {"getAllPosts", "getAllMeetings", "getUpcomingMeetings",
                         "getParallaxBanners", "getCurrentEboardMembers",
                         "getPastEboardMembers", "getAllHackathons",
                         "getAllLandingPageGraphics"}}
  \cup {<<"getHackathonsByStatus", s>> : s \in Statuses}

(***************************************************************************)
(* Resolver calls in flight.  calls[k], k = <<resolver, argument>>:        *)
(*   st      "pending" while client.getEntries is awaited, then "done"     *)
(*   before  the calls that had already settled when this one started     *)
(*   lead    it settled before every call that was started with it        *)
(*   requests the criteria of the client.getEntries calls it issued       *)
(*   fetchOk whether the remote call succeeded                             *)
(*   ret     what the resolver produced                                    *)
(***************************************************************************)
settled == {k \in DOMAIN calls : calls[k].st = "done"}

pendingCall ==
  [st |-> "pending", before |-> settled, lead |-> FALSE, requests |-> <<>>,
   fetchOk |-> FALSE, ret |-> returns(<<>>)]

\* every resolver calls client.getEntries whatever the credentials
requestsOf_always(k) == <<QueryOf(k[1], k[2])>>

\* the client.getEntries calls a resolver issues: one, except that
\* getLandingPageGraphicByTitle returns before it when a credential is
\* missing
requestsOf(k) ==
  IF k[1] = "getLandingPageGraphicByTitle" /\ credentialsMissing(env) THEN <<>>
  ELSE <<QueryOf(k[1], k[2])>>

Start(keys) ==
  calls' = calls @@ [k \in keys |-> [pendingCall EXCEPT !.requests = requestsOf(k)]]

\* the dummy client resolves { items: [] }; the real one answers from the
\* store or rejects.  client = "unsorted" is the real client in front of a
\* store that does not honour the order of the query.
getEntriesOutcomes(query) ==
  IF client = "dummy"
  THEN {[ok |-> TRUE, items |-> <<>>]}
  ELSE IF client = "unsorted"
  THEN {[ok |-> TRUE, items |-> listEntries(store, [query EXCEPT !.order = "none"])],
        [ok |-> FALSE, items |-> <<>>]}
  ELSE {[ok |-> TRUE, items |-> listEntries(store, query)],
        [ok |-> FALSE, items |-> <<>>]}

Idle == [tool |-> "none", args |-> Empty, pc |-> "idle", step |-> 0, acc |-> Empty]

NoResponse == [status |-> "none", isError |-> FALSE, body |-> Empty]

\* module load of config/env: validateEnv() throws on an unset variable
LoadEnv ==
  /\ proc = "boot"
  /\ IF envSchemaOk(processEnv)
     THEN proc' = "env" /\ env' = [n \in EnvNames |-> processEnv[n]]
     ELSE proc' = "aborted" /\ env' = env
  /\ UNCHANGED <<processEnv, client, store, calls, handler, response>>

\* module load of app/utils/contentful: the try/catch around createClient
InitClient ==
  /\ proc = "env"
  /\ client' = IF credentialsMissing(env) THEN "dummy" ELSE "real"
  /\ proc' = "up"
  /\ UNCHANGED <<processEnv, env, store, calls, handler, response>>

\* an external caller invokes a resolver
DirectCall(k) ==
  /\ proc = "up"
  /\ handler = Idle
  /\ k \notin DOMAIN calls
  /\ Start({k})
  /\ UNCHANGED <<processEnv, proc, env, client, store, handler, response>>

\* an awaited client.getEntries settles and the resolver runs to its return
Settle(k) ==
  /\ k \in DOMAIN calls
  /\ calls[k].st = "pending"
  /\ \E resp \in getEntriesOutcomes(QueryOf(k[1], k[2])) :
       calls' = [calls EXCEPT ![k] =
                   [st |-> "done", before |-> @.before, requests |-> @.requests,
                    lead |-> \A j \in DOMAIN calls :
                               calls[j].before = calls[k].before
                                 => calls[j].st = "pending",
                    fetchOk |-> resp.ok,
                    ret |-> Resolve(k[1], k[2], resp)]]
  /\ UNCHANGED <<processEnv, proc, env, client, store, handler, response>>

SettleAny == \E k \in DOMAIN calls : Settle(k)

CallListing ==
  \E k \in ListingCalls :
    /\ Cardinality(DOMAIN calls) < MaxCalls
    /\ DirectCall(k)

CallByStatus == \E s \in Statuses : DirectCall(<<"getHackathonsByStatus", s>>)

(***************************************************************************)
(* Tools and resources (the MCP handler).  A response is                   *)
(*   status "json": body is the object handed to JSON.stringify            *)
(*   status "text": the text of a catch branch                             *)
(***************************************************************************)
jsonResponse(body) == [status |-> "json", isError |-> FALSE, body |-> body]

errorResponse(flagged) == [status |-> "text", isError |-> flagged, body |-> Empty]

\* Promise.race in place of Promise.all
allDone_any(keys) == \E k \in keys : k \in DOMAIN calls /\ calls[k].st = "done"

allDone(keys) == \A k \in keys : k \in DOMAIN calls /\ calls[k].st = "done"

\* a failed fetch taken for a rejection (fail-fast)
anyThrew_orFailed(keys) == \E k \in keys : calls[k].ret.threw \/ ~calls[k].fetchOk

anyThrew(keys) == \E k \in keys : calls[k].ret.threw

\* the properties of obj among names, as JSON.stringify keeps them
pick(obj, names) == [n \in names \cap DOMAIN obj |-> obj[n]]

\* the slice without its guard: `if (limit !== undefined)`
truncate_unguarded(results, args) ==
  IF Has(args, "limit") THEN slice(results, args.limit) ELSE results

\* slice(-limit) in place of slice(0, limit)
truncate_fromEnd(results, args) ==
  IF Has(args, "limit") /\ args.limit > 0
  THEN SubSeq(results, Max(Len(results) - args.limit, 0) + 1, Len(results))
  ELSE results

\* `if (limit && limit > 0) results = results.slice(0, limit)`
truncate(results, args) ==
  IF Has(args, "limit") /\ args.limit > 0 THEN slice(results, args.limit)
  ELSE results

(***************************************************************************)
(* search-content                                                          *)
(***************************************************************************)
DefaultLimit == 5

\* the order of the handler's per-type blocks
SearchOrder == <<"blogPost", "meeting", "eboardMember", "hackathon">>

\* contentTypes || [all six]
typesToSearch(args) ==
  IF Has(args, "contentTypes") THEN args.contentTypes ELSE ContentTypes

searchLimit(args) == IF Has(args, "limit") THEN args.limit ELSE DefaultLimit

\* the fields the filter of each block hands to matchesQuery, in order
searchedFields(type) ==
  CASE type = "blogPost" -> <<"title", "excerpt", "author">>
    [] type = "meeting" -> <<"title", "description">>
    [] type = "eboardMember" -> <<"name", "position", "description">>
    [] type = "hackathon" -> <<"title", "description">>

\* the fields each block copies into a result
mappedFields(type) ==
  CASE type = "blogPost" -> {"title", "slug", "excerpt", "author"}
    [] type = "meeting" -> {"title", "date", "description"}
    [] type = "eboardMember" -> {"name", "position", "memberType"}
    [] type = "hackathon" -> {"title", "description", "status"}

resultKey(type) ==
  CASE type = "blogPost" -> "blogPosts"
    [] type = "meeting" -> "meetings"
    [] type = "eboardMember" -> "eboardMembers"
    [] type = "hackathon" -> "hackathons"

resolverCalls(type) ==
  CASE type = "blogPost" -> <<(<<"getAllPosts", "-">>)>>
    [] type = "meeting" -> <<(<<"getAllMeetings", "-">>)>>
    [] type = "eboardMember" ->
         <<(<<"getCurrentEboardMembers", "-">>), (<<"getPastEboardMembers", "-">>)>>
    [] type = "hackathon" -> <<(<<"getAllHackathons", "-">>)>>

\* text.toLowerCase().includes(searchQuery.toLowerCase()), text a string
matchesQuery(searchQuery, text) ==
  includes(toLowerCase(text), toLowerCase(searchQuery))

\* a || chain of matchesQuery over the fields of one record: "T", "F", or
\* "throw" when an absent field is reached (undefined.toLowerCase())
RECURSIVE anyMatches(_, _, _)
anyMatches(flds, names, searchQuery) ==
  IF names = <<>> THEN "F"
  ELSE IF ~Has(flds, Head(names)) THEN "throw"
  ELSE IF matchesQuery(searchQuery, flds[Head(names)]) THEN "T"
  ELSE anyMatches(flds, Tail(names), searchQuery)

searchHit(item, type) ==
  ("id" :> item.sys.id) @@ ("type" :> type) @@ pick(item.fields, mappedFields(type))

\* the block with slice and filter exchanged
searchBlock_sliceFirst(type, listing, searchQuery, limit) ==
  LET verdict(item) == anyMatches(item.fields, searchedFields(type), searchQuery)
  IN  IF \E i \in 1..Len(listing) : verdict(listing[i]) = "throw"
      THEN throws
      ELSE returns(
             LET kept == SelectSeq(slice(listing, limit), LAMBDA it : verdict(it) = "T")
             IN  [i \in 1..Len(kept) |-> searchHit(kept[i], type)])

\* one block: listing.filter(...).slice(0, limit).map(...)
searchBlock(type, listing, searchQuery, limit) ==
  LET verdict(item) == anyMatches(item.fields, searchedFields(type), searchQuery)
  IN  IF \E i \in 1..Len(listing) : verdict(listing[i]) = "throw"
      THEN throws
      ELSE returns(
             LET kept == slice(SelectSeq(listing, LAMBDA it : verdict(it) = "T"), limit)
             IN  [i \in 1..Len(kept) |-> searchHit(kept[i], type)])

\* the results with those of the call that completed first in front
concatAll_asCompleted(keys, cs) ==
  LET leading == SelectSeq(keys, LAMBDA k : cs[k].lead)
      others == SelectSeq(keys, LAMBDA k : ~cs[k].lead)
      order == leading \o others
  IN  IF Len(order) = 2 THEN cs[order[1]].ret.val \o cs[order[2]].ret.val
      ELSE IF Len(order) = 1 THEN cs[order[1]].ret.val
      ELSE <<>>

RECURSIVE concatAll(_, _)
concatAll(keys, cs) ==
  IF keys = <<>> THEN <<>> ELSE cs[Head(keys)].ret.val \o concatAll(Tail(keys), cs)

RECURSIVE sumLengths(_, _)
sumLengths(obj, keys) ==
  IF keys = {} THEN 0
  ELSE LET k == CHOOSE x \in keys : TRUE
       IN  Len(obj[k]) + sumLengths(obj, keys \ {k})

searchEnvelope(args, searchResults) ==
  jsonResponse([searchQuery |-> args.query,
                contentTypes |-> typesToSearch(args),
                totalResults |-> sumLengths(searchResults, DOMAIN searchResults),
                results |-> searchResults])

\* the first block after block `step` whose type is requested, 0 if none
nextBlock(step, types) ==
  LET later == {j \in (step + 1)..Len(SearchOrder) : arrayIncludes(types, SearchOrder[j])}
  IN  IF later = {} THEN 0 ELSE CHOOSE j \in later : \A i \in later : j <= i

\* the handler runs from `step` to its next await, or to its return
searchContinue(h, searchResults) ==
  LET next == nextBlock(h.step, typesToSearch(h.args))
  IN  IF next = 0
      THEN /\ handler' = [h EXCEPT !.pc = "done", !.acc = searchResults]
           /\ response' = searchEnvelope(h.args, searchResults)
           /\ calls' = calls
      ELSE /\ handler' = [h EXCEPT !.pc = "await", !.step = next, !.acc = searchResults]
           /\ response' = response
           /\ Start(Range(resolverCalls(SearchOrder[next])))

SearchArgs(queries, typeLists, limits) ==
  {("query" :> q) @@ t @@ l :
     q \in queries,
     t \in {Empty} \cup {"contentTypes" :> x : x \in typeLists},
     l \in {Empty} \cup {"limit" :> x : x \in limits}}

SearchCall(args) ==
  /\ proc = "up"
  /\ handler = Idle
  /\ calls = Empty
  /\ searchContinue([tool |-> "search-content", args |-> args, pc |-> "await",
                     step |-> 0, acc |-> Empty], Empty)
  /\ UNCHANGED <<processEnv, proc, env, client, store>>

\* the awaited resolvers of the current block have returned
SearchResume ==
  /\ handler.tool = "search-content"
  /\ handler.pc = "await"
  /\ LET type == SearchOrder[handler.step]
         keys == resolverCalls(type)
     IN  /\ allDone(Range(keys))
         /\ LET block == IF anyThrew(Range(keys)) THEN throws
                         ELSE searchBlock(type, concatAll(keys, calls),
                                          handler.args.query, searchLimit(handler.args))
            IN  IF block.threw
                THEN /\ handler' = [handler EXCEPT !.pc = "done"]
                     /\ response' = errorResponse(TRUE)
                     /\ calls' = calls
                ELSE searchContinue(handler, handler.acc @@ (resultKey(type) :> block.val))
  /\ UNCHANGED <<processEnv, proc, env, client, store>>

(***************************************************************************)
(* contentful-stats                                                        *)
(***************************************************************************)
statsCalls ==
  <<(<<"getAllPosts", "-">>), (<<"getAllMeetings", "-">>),
    (<<"getCurrentEboardMembers", "-">>), (<<"getPastEboardMembers", "-">>),
    (<<"getAllHackathons", "-">>), (<<"getAllLandingPageGraphics", "-">>),
    (<<"getParallaxBanners", "-">>)>>

\* the two eboard counts exchanged
statsNames_exchanged ==
  <<"blogPosts", "meetings", "pastEboardMembers", "currentEboardMembers",
    "hackathons", "landingPageGraphics", "parallaxBanners">>

statsNames ==
  <<"blogPosts", "meetings", "currentEboardMembers", "pastEboardMembers",
    "hackathons", "landingPageGraphics", "parallaxBanners">>

\* Promise.all([...]) is handed all seven promises at once
StatsCall ==
  /\ proc = "up"
  /\ handler = Idle
  /\ calls = Empty
  /\ handler' = [Idle EXCEPT !.tool = "contentful-stats", !.pc = "await"]
  /\ Start(Range(statsCalls))
  /\ UNCHANGED <<processEnv, proc, env, client, store, response>>

StatsCompose ==
  /\ handler.tool = "contentful-stats"
  /\ handler.pc = "await"
  /\ allDone(Range(statsCalls))
  /\ handler' = [handler EXCEPT !.pc = "done"]
  /\ response' =
       IF anyThrew(Range(statsCalls)) THEN errorResponse(FALSE)
       ELSE jsonResponse(
              [counts |-> [n \in Range(statsNames) |->
                 LET i == CHOOSE j \in 1..Len(statsNames) : statsNames[j] = n
                 IN  Len(calls[statsCalls[i]].ret.val)]])
  /\ UNCHANGED <<processEnv, proc, env, client, store, calls>>

(***************************************************************************)
(* query-eboard-members                                                    *)
(***************************************************************************)
memberTypeOf(args) == IF Has(args, "memberType") THEN args.memberType ELSE "all"

\* the resolvers the handler awaits, in the order their results are spread
eboardCalls(args) ==
  CASE memberTypeOf(args) = "current" -> <<(<<"getCurrentEboardMembers", "-">>)>>
    [] memberTypeOf(args) = "past" -> <<(<<"getPastEboardMembers", "-">>)>>
    [] OTHER -> <<(<<"getCurrentEboardMembers", "-">>), (<<"getPastEboardMembers", "-">>)>>

eboardRow(member) ==
  ("id" :> member.sys.id)
  @@ pick(member.fields,
          {"name", "position", "description", "linkedin", "github", "year", "memberType"})

EboardArgs(limits) ==
  {m @@ l :
     m \in {Empty} \cup {"memberType" :> x : x \in {"current", "past", "all"}},
     l \in {Empty} \cup {"limit" :> x : x \in limits}}

EboardCall(args) ==
  /\ proc = "up"
  /\ handler = Idle
  /\ calls = Empty
  /\ handler' = [Idle EXCEPT !.tool = "query-eboard-members", !.args = args,
                             !.pc = "await"]
  /\ Start(Range(eboardCalls(args)))
  /\ UNCHANGED <<processEnv, proc, env, client, store, response>>

EboardCompose ==
  /\ handler.tool = "query-eboard-members"
  /\ handler.pc = "await"
  /\ allDone(Range(eboardCalls(handler.args)))
  /\ handler' = [handler EXCEPT !.pc = "done"]
  /\ response' =
       IF anyThrew(Range(eboardCalls(handler.args))) THEN errorResponse(TRUE)
       ELSE LET results == truncate(concatAll(eboardCalls(handler.args), calls),
                                    handler.args)
            IN  jsonResponse([query |-> "eboard-members",
                              parameters |-> pick(handler.args, {"limit"})
                                 @@ ("memberType" :> memberTypeOf(handler.args)),
                              count |-> Len(results),
                              data |-> [i \in 1..Len(results) |-> eboardRow(results[i])]])
  /\ UNCHANGED <<processEnv, proc, env, client, store, calls>>

(***************************************************************************)
(* query-blog-posts, query-meetings, query-hackathons, query-graphics,     *)
(* query-banners                                                           *)
(***************************************************************************)
QueryTools ==
  {"query-blog-posts", "query-meetings", "query-hackathons", "query-graphics",
   "query-banners"}

\* `if (slug)` on an optional string
textGiven(args, name) == Has(args, name) /\ args[name] # <<>>

argOr(args, name, default) == IF Has(args, name) THEN args[name] ELSE default

\* the resolver each handler awaits (query-eboard-members: see below)
queryCalls(tool, args) ==
  CASE tool = "query-blog-posts" ->
         IF textGiven(args, "slug") THEN <<(<<"getPostBySlug", args.slug>>)>>
         ELSE <<(<<"getAllPosts", "-">>)>>
    [] tool = "query-meetings" ->
         IF argOr(args, "type", "all") = "upcoming"
         THEN <<(<<"getUpcomingMeetings", "-">>)>>
         ELSE <<(<<"getAllMeetings", "-">>)>>
    [] tool = "query-hackathons" ->
         IF Has(args, "slug") THEN <<(<<"getHackathonBySlug", args.slug>>)>>
         ELSE IF argOr(args, "status", "all") = "all"
              THEN <<(<<"getAllHackathons", "-">>)>>
         ELSE <<(<<"getHackathonsByStatus", args.status>>)>>
    [] tool = "query-graphics" ->
         IF textGiven(args, "title")
         THEN <<(<<"getLandingPageGraphicByTitle", args.title>>)>>
         ELSE <<(<<"getAllLandingPageGraphics", "-">>)>>
    [] tool = "query-banners" -> <<(<<"getParallaxBanners", "-">>)>>

isLookup(k) ==
  k[1] \in {"getPostBySlug", "getHackathonBySlug", "getLandingPageGraphicByTitle"}

\* `results = post ? [post] : []`, or the listing
queryResults(keys, cs) ==
  IF isLookup(keys[1])
  THEN (IF cs[keys[1]].ret.val = Null THEN <<>> ELSE <<cs[keys[1]].ret.val>>)
  ELSE cs[keys[1]].ret.val

\* x.fields.<a>?.fields?.file?.url || x.fields.<b>?.fields?.file?.url as the
\* property `name`, left out by JSON.stringify when undefined
urlProperty(name, flds, assets) ==
  LET resolving == SelectSeq(assets, LAMBDA a : resolves(flds, a))
  IN  IF resolving = <<>> THEN Empty ELSE name :> flds[resolving[1]].url

queryRow(tool, item) ==
  ("id" :> item.sys.id) @@
  CASE tool = "query-blog-posts" ->
         pick(item.fields, {"title", "slug", "excerpt", "author", "publishDate"})
         @@ urlProperty("coverImageUrl", item.fields, <<"coverImage">>)
    [] tool = "query-meetings" ->
         pick(item.fields, {"title", "date", "description", "meetingLocation",
                            "slidesUrl", "recording", "resourcesUrl"})
         @@ urlProperty("imageUrl", item.fields, <<"image">>)
    [] tool = "query-hackathons" ->
         pick(item.fields, {"title", "slug", "description", "startDate", "endDate",
                            "status", "registrationLink"})
         @@ urlProperty("imageUrl", item.fields, <<"image">>)
    [] tool = "query-graphics" ->
         pick(item.fields, {"title", "description"})
         @@ urlProperty("imageUrl", item.fields, <<"image", "graphic">>)
    [] tool = "query-banners" ->
         pick(item.fields, {"title", "link"})
         @@ urlProperty("imageUrl", item.fields, <<"image">>)

queryName(tool) ==
  CASE tool = "query-blog-posts" -> "blog-posts"
    [] tool = "query-meetings" -> "meetings"
    [] tool = "query-hackathons" -> "hackathons"
    [] tool = "query-graphics" -> "landing-page-graphics"
    [] tool = "query-banners" -> "parallax-banners"

\* the echoed parameters, destructuring defaults applied
queryParameters(tool, args) ==
  CASE tool = "query-blog-posts" -> pick(args, {"slug", "limit"})
    [] tool = "query-meetings" ->
         pick(args, {"limit"}) @@ ("type" :> argOr(args, "type", "all"))
    [] tool = "query-hackathons" ->
         pick(args, {"slug", "limit"}) @@ ("status" :> argOr(args, "status", "all"))
    [] tool = "query-graphics" -> pick(args, {"title", "limit"})
    [] tool = "query-banners" -> pick(args, {"limit"})

QueryCall(tool, args) ==
  /\ proc = "up"
  /\ handler = Idle
  /\ calls = Empty
  /\ handler' = [Idle EXCEPT !.tool = tool, !.args = args, !.pc = "await"]
  /\ Start(Range(queryCalls(tool, args)))
  /\ UNCHANGED <<processEnv, proc, env, client, store, response>>

QueryCompose ==
  /\ handler.tool \in QueryTools
  /\ handler.pc = "await"
  /\ LET keys == queryCalls(handler.tool, handler.args)
     IN  /\ allDone(Range(keys))
         /\ response' =
              IF anyThrew(Range(keys)) THEN errorResponse(TRUE)
              ELSE LET results == truncate(queryResults(keys, calls), handler.args)
                   IN  jsonResponse(
                         [query |-> queryName(handler.tool),
                          parameters |-> queryParameters(handler.tool, handler.args),
                          count |-> Len(results),
                          data |-> [i \in 1..Len(results) |->
                                      queryRow(handler.tool, results[i])]])
  /\ handler' = [handler EXCEPT !.pc = "done"]
  /\ UNCHANGED <<processEnv, proc, env, client, store, calls>>

(***************************************************************************)
(* Inputs: the texts, raw entries and stores the specifications draw from. *)
(***************************************************************************)
TextAB == <<"a", "B">>

TextC == <<"c">>

Queries == {<<"A", "b">>, <<"c">>}

TypeLists ==
  {<<"hackathon">>, <<"blogPost", "eboardMember">>, <<"meeting", "parallaxBanner">>}

Limits == {-1, 0, 1}

FullEnv == [n \in EnvNames |-> "value"]

EmptyStore == [t \in StoreTypes |-> <<>>]

\* the text fields of each searchable type, its first and its last
TextFields(type) ==
  CASE type = "blogPost" -> {"title", "excerpt", "author"}
    [] type \in {"meeting", "upcomingMeeting"} -> {"title", "description"}
    [] type = "eboardMember" -> {"name", "position", "description"}
    [] type = "hackathon" -> {"title", "description"}
    [] OTHER -> {"title"}

Lead(type) == IF type = "eboardMember" THEN "name" ELSE "title"

Trail(type) == IF type = "blogPost" THEN "author" ELSE "description"

BagKinds == <<"lead", "trail", "none", "noLead", "noTrail">>

\* the fields of a raw entry besides its texts
Extras(type, k) ==
  CASE type \in {"meeting", "upcomingMeeting"} -> "date" :> <<2024, 1, k>>
    [] type = "eboardMember" ->
         "memberType" :> (IF k % 2 = 1 THEN "current" ELSE "past")
    [] type = "hackathon" -> "startDate" :> <<2024, k, 1>>
    [] OTHER -> Empty

\* raw field bags of kind BagKinds[k]: TextAB in the lead or the trailing
\* field, TextC elsewhere, the lead or the trailing field absent
Bag(type, k) ==
  LET kind == BagKinds[k]
      present == TextFields(type)
                   \ (IF kind = "noLead" THEN {Lead(type)}
                      ELSE IF kind = "noTrail" THEN {Trail(type)} ELSE {})
      hot == IF kind \in {"lead", "noTrail"} THEN Lead(type)
             ELSE IF kind \in {"trail", "noLead"} THEN Trail(type) ELSE "-"
  IN  [f \in present |-> IF f = hot THEN TextAB ELSE TextC] @@ Extras(type, k)

Bags(type) == {Bag(type, k) : k \in 1..Len(BagKinds)}

\* every type holds n well-formed entries
SampleStore(n) == [t \in StoreTypes |-> Entries([i \in 1..n |-> Bag(t, 1 + (i % 2))])]

\* one type holds any entries, the other searched types one entry or none
SearchStoresOf(t) ==
  {[u \in StoreTypes |->
      IF u = t THEN Entries(bags)
      ELSE IF other /\ u \in Range(SearchOrder) THEN Entries(<<Bag(u, 1)>>)
      ELSE <<>>] :
     bags \in SeqsUpTo(Bags(t), MaxItems), other \in BOOLEAN}

SearchStores == UNION {SearchStoresOf(t) : t \in Range(SearchOrder)}

HackathonStatuses == Statuses \cup {"", "cancelled"}

HackathonBags ==
  {Bag("hackathon", 1)} \cup {Bag("hackathon", 1) @@ ("status" :> s) : s \in HackathonStatuses}

HackathonStores ==
  {[EmptyStore EXCEPT !["hackathon"] = Entries(bags)] :
     bags \in SeqsUpTo(HackathonBags, MaxItems)}

MemberBags ==
  {[name |-> TextAB, position |-> TextC, description |-> TextC]} \cup
  {[name |-> TextAB, position |-> TextC, description |-> TextC, memberType |-> m] :
     m \in {"current", "past"}}

MemberStores ==
  {[EmptyStore EXCEPT !["eboardMember"] = Entries(bags)] :
     bags \in SeqsUpTo(MemberBags, MaxItems + 1)}

\* an asset with a file URL, and one without (an unresolved or draft asset)
Asset(u) == "url" :> u

NoFile == Empty

Optional(name, values) == {Empty} \cup {name :> v : v \in values}

\* landing-page graphics titled TextAB with every combination of image and
\* graphic, and one titled TextC
GraphicBags ==
  {("title" :> TextAB) @@ i @@ g :
     i \in Optional("image", {Asset("img"), NoFile}),
     g \in Optional("graphic", {Asset("gfx"), NoFile})}
  \cup {[title |-> TextC, image |-> Asset("img")]}

GraphicStores ==
  {[EmptyStore EXCEPT !["landingPageGraphics"] = Entries(bags)] :
     bags \in SeqsUpTo(GraphicBags, MaxItems)}

GraphicCalls ==
  {<<"getLandingPageGraphicByTitle", t>> : t \in {TextAB, TextC}}
  \cup {<<"getAllLandingPageGraphics", "-">>}

\* what a raw entry of the query stores has besides Bag: a slug, a status,
\* an image or a graphic
More(type, i) ==
  CASE type = "blogPost" -> "slug" :> (IF i % 2 = 1 THEN TextAB ELSE TextC)
    [] type = "hackathon" -> "status" :> (IF i % 2 = 1 THEN "past" ELSE "ongoing")
    [] type = "landingPageGraphics" ->
         IF i % 2 = 1 THEN "graphic" :> Asset("gfx") ELSE "image" :> Asset("img")
    [] type = "parallaxBanner" -> "image" :> Asset("img")
    [] OTHER -> Empty

\* every type holds n entries
QuerySample(n) ==
  [t \in StoreTypes |->
     Entries([i \in 1..n |-> Bag(t, 1 + (i % 2)) @@ More(t, i)])]

Slugs == {TextAB, TextC, <<"a">>, <<>>}

QueryArgs(tool, limits) ==
  LET lim == Optional("limit", limits)
      more ==
        CASE tool = "query-blog-posts" -> Optional("slug", Slugs)
          [] tool = "query-meetings" -> Optional("type", {"all", "upcoming"})
          [] tool = "query-hackathons" ->
               {s @@ g : s \in Optional("status", Statuses \cup {"all"}),
                         g \in Optional("slug", 1..(MaxItems + 1))}
          [] tool = "query-graphics" -> Optional("title", {TextAB, TextC})
          [] tool = "query-banners" -> {Empty}
  IN  {m @@ l : m \in more, l \in lim}

\* meetings in any order of creation, dated or not
MeetingBags ==
  {[title |-> TextAB, description |-> TextC] @@ d :
     d \in Optional("date", {<<2024, 1, 5>>, <<2024, 1, 9>>})}

MeetingStores ==
  {[EmptyStore EXCEPT !["meeting"] = Entries(bags)] :
     bags \in SeqsUpTo(MeetingBags, MaxItems + 1)}

\* blog posts with a slug holding "a", a slug holding "c", or no slug
PostBags ==
  {Bag("blogPost", 1) @@ g : g \in Optional("slug", {TextAB, TextC, <<"c", "a">>})}

PostStores ==
  {[EmptyStore EXCEPT !["blogPost"] = Entries(bags)] :
     bags \in SeqsUpTo(PostBags, MaxItems)}

SlugQueries == {TextAB, <<"a">>, <<"b">>, <<"c">>}

LookupCalls ==
  {<<"getPostBySlug", q>> : q \in {<<"a">>, <<"b">>}}
  \cup {<<"getHackathonBySlug", i>> : i \in {1, MaxItems + 1}}
  \cup {<<"getLandingPageGraphicByTitle", t>> : t \in {TextAB, TextC}}

(***************************************************************************)
(* Specifications.                                                         *)
(***************************************************************************)
Up(stores) ==
  /\ processEnv = FullEnv
  /\ proc = "up"
  /\ env = FullEnv
  /\ client = "real"
  /\ store \in stores
  /\ calls = Empty
  /\ handler = Idle
  /\ response = NoResponse

\* process start, then resolvers called by an external caller
Init ==
  /\ processEnv \in ProcessEnvs
  /\ proc = "boot"
  /\ env = Empty
  /\ client = "none"
  /\ store \in {SampleStore(n) : n \in 1..MaxItems}
  /\ calls = Empty
  /\ handler = Idle
  /\ response = NoResponse

Next == LoadEnv \/ InitClient \/ CallListing \/ SettleAny

Spec == Init /\ [][Next]_vars

\* getHackathonsByStatus called with each status
InitHackathons == Up(HackathonStores)

NextHackathons == CallByStatus \/ SettleAny

SpecHackathons == InitHackathons /\ [][NextHackathons]_vars

\* query-eboard-members
InitEboard == Up(MemberStores)

EboardCallAny == \E args \in EboardArgs(Limits) : EboardCall(args)

NextEboard == EboardCallAny \/ SettleAny \/ EboardCompose

SpecEboard == InitEboard /\ [][NextEboard]_vars

\* search-content
InitSearch == Up(SearchStores)

SearchCallAny == \E args \in SearchArgs(Queries, TypeLists, Limits) : SearchCall(args)

NextSearch == SearchCallAny \/ SettleAny \/ SearchResume

SpecSearch == InitSearch /\ [][NextSearch]_vars

\* the aggregations: search-content and contentful-stats
InitAggregate == Up({SampleStore(n) : n \in 0..MaxItems})

NextAggregate == SearchCallAny \/ StatsCall \/ SettleAny \/ SearchResume \/ StatsCompose

SpecAggregate == InitAggregate /\ [][NextAggregate]_vars

\* the landing-page graphics resolvers, with and without credentials
InitGraphics ==
  /\ processEnv \in {FullEnv, [FullEnv EXCEPT !["CONTENTFUL_ACCESS_TOKEN"] = ""],
                     [FullEnv EXCEPT !["CONTENTFUL_SPACE_ID"] = ""]}
  /\ proc = "up"
  /\ env = processEnv
  /\ client = IF credentialsMissing(processEnv) THEN "dummy" ELSE "real"
  /\ store \in GraphicStores
  /\ calls = Empty
  /\ handler = Idle
  /\ response = NoResponse

CallGraphics == \E k \in GraphicCalls : DirectCall(k)

NextGraphics == CallGraphics \/ SettleAny

SpecGraphics == InitGraphics /\ [][NextGraphics]_vars

\* the six query tools
InitQuery == Up({QuerySample(n) : n \in 0..MaxItems})

QueryCallAny ==
  \E tool \in QueryTools : \E args \in QueryArgs(tool, Limits \cup {MaxItems}) :
    QueryCall(tool, args)

EboardCallLimited == \E args \in EboardArgs(Limits \cup {MaxItems}) : EboardCall(args)

NextQuery ==
  QueryCallAny \/ EboardCallLimited \/ SettleAny \/ QueryCompose \/ EboardCompose

SpecQuery == InitQuery /\ [][NextQuery]_vars

\* getAllMeetings, the store honouring the requested order or not
InitMeetings ==
  /\ processEnv = FullEnv
  /\ proc = "up"
  /\ env = FullEnv
  /\ client \in {"real", "unsorted"}
  /\ store \in MeetingStores
  /\ calls = Empty
  /\ handler = Idle
  /\ response = NoResponse

CallMeetings == DirectCall(<<"getAllMeetings", "-">>)

NextMeetings == CallMeetings \/ SettleAny

SpecMeetings == InitMeetings /\ [][NextMeetings]_vars

\* getPostBySlug
InitPosts == Up(PostStores)

CallPostBySlug ==
  \E q \in SlugQueries :
    /\ Cardinality(DOMAIN calls) < MaxCalls
    /\ DirectCall(<<"getPostBySlug", q>>)

NextPosts == CallPostBySlug \/ SettleAny

SpecPosts == InitPosts /\ [][NextPosts]_vars

\* every resolver, called by an external caller
InitResolvers == Up({QuerySample(n) : n \in 1..MaxItems})

CallLookup ==
  \E k \in LookupCalls :
    /\ Cardinality(DOMAIN calls) < MaxCalls
    /\ DirectCall(k)

NextResolvers == CallListing \/ CallLookup \/ SettleAny

SpecResolvers == InitResolvers /\ [][NextResolvers]_vars

(***************************************************************************)
(* Properties.                                                             *)
(***************************************************************************)
done(k) == k \in DOMAIN calls /\ calls[k].st = "done"

idsOf(items) == [i \in 1..Len(items) |-> items[i].sys.id]

\* C1: a listing resolver never rejects, and when its remote call fails it
\* returns the empty array.
C1_ListingFailsOpen ==
  \A k \in DOMAIN calls :
    (k \in ListingCalls /\ calls[k].st = "done") =>
      /\ ~calls[k].ret.threw
      /\ ~calls[k].fetchOk => calls[k].ret.val = <<>>

\* a listing whose remote call failed has returned, while the store held
\* entries for it
C1_Witness ==
  \E k \in DOMAIN calls :
    /\ k \in ListingCalls
    /\ calls[k].st = "done"
    /\ client = "real"
    /\ ~calls[k].fetchOk
    /\ listEntries(store, QueryOf(k[1], k[2])) # <<>>

\* C2: with the space identifier or the access token unset or empty (the
\* rest of the environment being valid) the process does not abort: it
\* comes up with the null handle, whose getEntries succeeds with no items,
\* so every resolver returns the empty array.
C2_MissingCredentialsFailOpen ==
  (Has(processEnv, "REDIS_URL") /\ credentialsMissing(processEnv)) =>
    /\ proc # "aborted"
    /\ proc = "up" => client = "dummy"
    /\ \A k \in DOMAIN calls :
         calls[k].st = "done" => calls[k].fetchOk /\ calls[k].ret = returns(<<>>)

byStatus(s) == <<"getHackathonsByStatus", s>>

\* the statuses whose completed call returned the hackathon with this id
partitionsOf(id) ==
  {s \in Statuses : done(byStatus(s)) /\ id \in Range(idsOf(calls[byStatus(s)].ret.val))}

allStatusesQueried == \A s \in Statuses : done(byStatus(s))

classOf(h) ==
  IF ~Has(h.fields, "status") \/ h.fields["status"] = "" THEN "upcoming"
  ELSE h.fields["status"]

C4_NoStatusIsUpcoming ==
  \A s \in Statuses :
    (done(byStatus(s)) /\ calls[byStatus(s)].fetchOk) =>
      \A i \in 1..Min(Len(store["hackathon"]), PageLimit) :
        LET h == store["hackathon"][i]
            out == calls[byStatus(s)].ret.val
        IN  ~Has(h.fields, "status") =>
              /\ (\E j \in 1..Len(out) : out[j].sys.id = h.sys.id) <=> s = "upcoming"
              /\ \A j \in 1..Len(out) :
                   out[j].sys.id = h.sys.id => ~Has(out[j].fields, "status")

\* a hackathon without status has been returned for "upcoming" and left out
\* for "past" and "ongoing"
C4_Witness ==
  /\ allStatusesQueried
  /\ \A s \in Statuses : calls[byStatus(s)].fetchOk
  /\ \E i \in 1..Len(store["hackathon"]) :
       /\ ~Has(store["hackathon"][i].fields, "status")
       /\ partitionsOf(store["hackathon"][i].sys.id) = {"upcoming"}
  /\ calls[byStatus("past")].ret.val # <<>>

currentCall == <<"getCurrentEboardMembers", "-">>

pastCall == <<"getPastEboardMembers", "-">>

\* the identifiers of the store's members of one memberType, oldest first,
\* or nothing when the fetch for them failed
membersFetched(k, memberType) ==
  IF calls[k].fetchOk
  THEN idsOf(SelectSeq(store["eboardMember"],
                       LAMBDA m : Has(m.fields, "memberType")
                                  /\ m.fields["memberType"] = memberType))
  ELSE <<>>

\* C5: no member is returned by both getCurrentEboardMembers and
\* getPastEboardMembers, and query-eboard-members with memberType "all"
\* (given or defaulted) and no limit returns the current members followed
\* by the past members, whichever fetch completed first.
C5_CurrentThenPast ==
  /\ (done(currentCall) /\ done(pastCall)) =>
       Range(idsOf(calls[currentCall].ret.val))
         \cap Range(idsOf(calls[pastCall].ret.val)) = {}
  /\ (handler.tool = "query-eboard-members" /\ handler.pc = "done"
        /\ memberTypeOf(handler.args) = "all" /\ ~Has(handler.args, "limit")) =>
       /\ response.status = "json"
       /\ [i \in 1..Len(response.body.data) |-> response.body.data[i].id]
            = membersFetched(currentCall, "current") \o membersFetched(pastCall, "past")
       /\ response.body.count = Len(response.body.data)

\* "all" answered with a current and a past member, the past members'
\* fetch having completed first
C5_Witness ==
  /\ handler.tool = "query-eboard-members" /\ handler.pc = "done"
  /\ memberTypeOf(handler.args) = "all" /\ ~Has(handler.args, "limit")
  /\ calls[pastCall].lead
  /\ calls[currentCall].ret.val # <<>>
  /\ calls[pastCall].ret.val # <<>>
  /\ response.body.count >= 2

searchDone == handler.tool = "search-content" /\ handler.pc = "done"

\* the types of this search that the handler has a block for
searchedTypes ==
  {t \in Range(SearchOrder) : arrayIncludes(typesToSearch(handler.args), t)}

\* what the listing resolvers of a type returned to the search
listingOf(type) == concatAll(resolverCalls(type), calls)

\* the text holds the query as a substring, letter case ignored
containsIgnoringCase(text, query) ==
  \E from \in 1..(Len(text) + 1) :
    /\ from + Len(query) - 1 <= Len(text)
    /\ \A i \in 1..Len(query) : lowerChar(text[from + i - 1]) = lowerChar(query[i])

\* a record is a match: one of the searched text fields of its type is
\* present and contains the query
isMatch(item, type) ==
  \E f \in TextFields(type) :
    Has(item.fields, f) /\ containsIgnoringCase(item.fields[f], handler.args.query)

matchesOf(type) == SelectSeq(listingOf(type), LAMBDA item : isMatch(item, type))

firstN(s, n) == SubSeq(s, 1, Min(n, Len(s)))

hitIds(type) ==
  LET hits == response.body.results[resultKey(type)]
  IN  [i \in 1..Len(hits) |-> hits[i].id]

\* C6: a completed search answers with the records that match, and only
\* those: per searched type, the records one of whose searched fields
\* contains the query ignoring case (up to the per-type limit), each under
\* its own type's key.
C6_MatchIffFieldContains ==
  searchDone =>
    /\ response.status = "json"
    /\ \A t \in searchedTypes :
         /\ Has(response.body.results, resultKey(t))
         /\ hitIds(t) = idsOf(slice(matchesOf(t), searchLimit(handler.args)))
         /\ \A i \in 1..Len(response.body.results[resultKey(t)]) :
              response.body.results[resultKey(t)][i].type = t

fetchFailed(type) == \A k \in Range(resolverCalls(type)) : ~calls[k].fetchOk

\* C7: when the fetch of one requested type failed, the completed search
\* is not an error, that type's result is empty, and every other requested
\* type with matching records returns some (the limit being at least 1).
C7_FailureIsolation ==
  (searchDone /\ searchLimit(handler.args) >= 1
     /\ \E t \in searchedTypes : allDone(Range(resolverCalls(t))) /\ fetchFailed(t)) =>
    /\ response.status = "json"
    /\ ~response.isError
    /\ \A t \in searchedTypes :
         /\ fetchFailed(t) => response.body.results[resultKey(t)] = <<>>
         /\ matchesOf(t) # <<>> => response.body.results[resultKey(t)] # <<>>

aggregating == handler.tool \in {"search-content", "contentful-stats"}

requestedCalls ==
  IF handler.tool = "contentful-stats" THEN Range(statsCalls)
  ELSE UNION {Range(resolverCalls(t)) : t \in searchedTypes}

blockOf(k) == CHOOSE j \in 1..Len(SearchOrder) : k \in Range(resolverCalls(SearchOrder[j]))

C9_EnvelopeTypesWereSearched ==
  (searchDone /\ response.status = "json") =>
    /\ \A t \in Range(response.body.contentTypes) :
         /\ t \in Range(SearchOrder)
         /\ Range(resolverCalls(t)) \subseteq DOMAIN calls
         /\ Has(response.body.results, resultKey(t))
    /\ ~Has(handler.args, "contentTypes") =>
         Range(response.body.contentTypes) = Range(SearchOrder)

perTypeLimit == IF Has(handler.args, "limit") THEN handler.args["limit"] ELSE 5

\* C10 as stated: for every limit, a per-type result array is the first
\* `limit` matches in listing order, and is no longer than the limit.
C10_FirstLimitMatches ==
  (searchDone /\ response.status = "json") =>
    \A t \in searchedTypes :
      /\ hitIds(t) = idsOf(firstN(matchesOf(t), perTypeLimit))
      /\ Len(hitIds(t)) <= perTypeLimit

\* C10 amended: for a limit of 0 or more (5 when omitted) a per-type result
\* array is the first `limit` matches in listing order, all of them if there
\* are fewer, and is no longer than the limit; for a negative limit -n it is
\* the matches in listing order without the last n.  No match is reordered
\* or skipped for a later one.
C10_FirstLimitMatchesOrDropLast ==
  (searchDone /\ response.status = "json") =>
    \A t \in searchedTypes :
      LET matches == idsOf(matchesOf(t))
      IN  /\ perTypeLimit >= 0 =>
               /\ hitIds(t) = firstN(matches, perTypeLimit)
               /\ Len(hitIds(t)) <= perTypeLimit
          /\ perTypeLimit < 0 =>
               hitIds(t) = firstN(matches, Max(Len(matches) + perTypeLimit, 0))
          /\ \E n \in 0..Len(matches) : hitIds(t) = firstN(matches, n)

\* a limit of 1 has cut two matches down to the first
C10_Witness ==
  /\ searchDone
  /\ response.status = "json"
  /\ perTypeLimit = 1
  /\ \E t \in searchedTypes :
       /\ Len(matchesOf(t)) >= 2
       /\ hitIds(t) = <<matchesOf(t)[1].sys.id>>
       /\ matchesOf(t)[1].sys.id # 1

\* the raw entry of the store that a returned record was made from
rawOf(type, record) ==
  LET all == store[type]
  IN  all[CHOOSE i \in 1..Len(all) : all[i].sys.id = record.sys.id]

found(k) == done(k) /\ calls[k].ret.val # Null

\* C11: in the record getLandingPageGraphicByTitle returns, image is the raw
\* graphic whenever graphic has a file URL and image has none (absent, or
\* present without a file URL), and is the raw image whenever image has one.
C11_ImageBackfilledWhenUnresolved ==
  \A k \in DOMAIN calls :
    (k[1] = "getLandingPageGraphicByTitle" /\ found(k)) =>
      LET out == calls[k].ret.val.fields
          raw == rawOf("landingPageGraphics", calls[k].ret.val).fields
      IN  /\ (resolves(raw, "graphic") /\ ~resolves(raw, "image")) =>
                Has(out, "image") /\ out.image = raw.graphic
          /\ resolves(raw, "image") => Has(out, "image") /\ out.image = raw.image

\* C12: a raw graphic with a graphic field and no image field comes back
\* with image equal to the graphic, from getAllLandingPageGraphics as from
\* getLandingPageGraphicByTitle.
C12_SameBackfillOnEveryPath ==
  \A k \in DOMAIN calls :
    LET records == IF k[1] = "getAllLandingPageGraphics" THEN calls[k].ret.val
                   ELSE IF found(k) THEN <<calls[k].ret.val>> ELSE <<>>
    IN  done(k) =>
          \A i \in 1..Len(records) :
            LET raw == rawOf("landingPageGraphics", records[i]).fields
            IN  (Has(raw, "graphic") /\ ~Has(raw, "image")) =>
                  /\ Has(records[i].fields, "image")
                  /\ records[i].fields.image = raw.graphic

\* a query tool has answered
queryDone ==
  handler.pc = "done" /\ handler.tool \in QueryTools \cup {"query-eboard-members"}

\* what the resolvers of the tool returned, as a list
queryListing ==
  IF handler.tool = "query-eboard-members"
  THEN concatAll(eboardCalls(handler.args), calls)
  ELSE queryResults(queryCalls(handler.tool, handler.args), calls)

\* C13: a query tool called with limit n > 0 over a listing of m items
\* answers with the first min(n, m) items of the listing, in its order, and
\* count = min(n, m).
C13_FirstMinItems ==
  (queryDone /\ Has(handler.args, "limit") /\ handler.args.limit > 0) =>
    /\ response.status = "json"
    /\ [i \in 1..Len(response.body.data) |-> response.body.data[i].id]
         = idsOf(firstN(queryListing, handler.args.limit))
    /\ response.body.count = Min(handler.args.limit, Len(queryListing))

\* a limit of 1 has cut a listing of two or more to its first item
C13_Witness ==
  /\ queryDone
  /\ Has(handler.args, "limit") /\ handler.args.limit = 1
  /\ Len(queryListing) >= 2
  /\ response.body.count = 1
  /\ response.body.data[1].id = queryListing[1].sys.id

statsDone == handler.tool = "contentful-stats" /\ handler.pc = "done"

\* the listing resolver behind each count of the overview
countedResolver ==
  [blogPosts |-> "getAllPosts", meetings |-> "getAllMeetings",
   currentEboardMembers |-> "getCurrentEboardMembers",
   pastEboardMembers |-> "getPastEboardMembers",
   hackathons |-> "getAllHackathons",
   landingPageGraphics |-> "getAllLandingPageGraphics",
   parallaxBanners |-> "getParallaxBanners"]

\* what a listing resolver returns when called on its own against the
\* store, its remote call succeeding or not as it did for the overview
onItsOwn(fn) ==
  LET k == <<fn, "-">>
  IN  Resolve(fn, "-", [ok |-> calls[k].fetchOk,
                        items |-> IF calls[k].fetchOk
                                  THEN listEntries(store, QueryOf(fn, "-"))
                                  ELSE <<>>]).val

\* C14: every count of the statistics overview is the length of the array
\* the corresponding listing resolver returns for the same store.
C14_CountsAreListingLengths ==
  (statsDone /\ response.status = "json") =>
    /\ DOMAIN response.body.counts = DOMAIN countedResolver
    /\ \A n \in DOMAIN countedResolver :
         response.body.counts[n] = Len(onItsOwn(countedResolver[n]))

\* an overview over a store with unequal numbers of current and past
\* members, all fetches having succeeded
C14_Witness ==
  /\ statsDone
  /\ response.status = "json"
  /\ \A k \in Range(statsCalls) : calls[k].fetchOk
  /\ response.body.counts.blogPosts >= 1
  /\ response.body.counts.currentEboardMembers # response.body.counts.pastEboardMembers

bannersCall == <<"getParallaxBanners", "-">>

fetched(k) == done(k) /\ calls[k].fetchOk

\* the entries of a type in the store, in creation order
createdIds(type) == idsOf(store[type])

\* C16 as stated: getParallaxBanners lists the banners oldest first.
C16_OldestFirst ==
  (client = "real" /\ fetched(bannersCall)) =>
    LET ids == idsOf(calls[bannersCall].ret.val)
    IN  /\ Range(ids) = Range(createdIds("parallaxBanner"))
        /\ \A i, j \in 1..Len(ids) : i < j => ids[i] < ids[j]

\* C16 amended: getParallaxBanners lists all banners in descending
\* creation-time order (newest first): of any two banners returned, the one
\* created later comes first.
C16_NewestFirst ==
  (client = "real" /\ fetched(bannersCall)) =>
    LET ids == idsOf(calls[bannersCall].ret.val)
    IN  /\ Range(ids) = Range(createdIds("parallaxBanner"))
        /\ Len(ids) = Len(createdIds("parallaxBanner"))
        /\ \A i, j \in 1..Len(ids) : i < j => ids[i] > ids[j]

\* two or more banners have been listed
C16_Witness ==
  /\ fetched(bannersCall)
  /\ Len(calls[bannersCall].ret.val) >= 2
  /\ calls[bannersCall].ret.val[1].sys.id = Len(store["parallaxBanner"])

meetingsCall == <<"getAllMeetings", "-">>

\* C17: whatever order the store returned them in, getAllMeetings returns
\* the fetched meetings, each once, in descending date order: the earlier
\* element's date is at or after the later element's (compared wherever
\* both elements have a date).
C17_DescendingDates ==
  fetched(meetingsCall) =>
    LET result == calls[meetingsCall].ret.val
        dated(i) == Has(result[i].fields, "date")
    IN  /\ Len(result) = Len(store["meeting"])
        /\ Range(idsOf(result)) = Range(createdIds("meeting"))
        /\ \A i, j \in 1..Len(result) :
             (i < j /\ dated(i) /\ dated(j)) =>
               getTime(result[i].fields.date) >= getTime(result[j].fields.date)

\* the logical type each resolver queries for
logicalType(fn) ==
  CASE fn \in {"getAllPosts", "getPostBySlug"} -> "blogPost"
    [] fn = "getAllMeetings" -> "meeting"
    [] fn = "getUpcomingMeetings" -> "upcomingMeeting"
    [] fn \in {"getCurrentEboardMembers", "getPastEboardMembers"} -> "eboardMember"
    [] fn \in {"getAllHackathons", "getHackathonsByStatus", "getHackathonBySlug"} ->
         "hackathon"
    [] fn \in {"getAllLandingPageGraphics", "getLandingPageGraphicByTitle"} ->
         "landingPageGraphics"
    [] fn = "getParallaxBanners" -> "parallaxBanner"

\* the records a completed resolver call returned
recordsOf(k) ==
  IF isLookup(k) THEN (IF calls[k].ret.val = Null THEN <<>> ELSE <<calls[k].ret.val>>)
  ELSE calls[k].ret.val

\* C18: every record a resolver returns carries the contentTypeId of the
\* logical type the resolver queried for, whatever the raw record carries,
\* and is the store's entry of its identifier: same sys, same fields (image
\* aside, which getLandingPageGraphicByTitle may fill in).
C18_StampedByResolver ==
  \A k \in DOMAIN calls :
    done(k) =>
      \A i \in 1..Len(recordsOf(k)) :
        LET record == recordsOf(k)[i]
            type == logicalType(k[1])
        IN  /\ record.contentTypeId = type
            /\ record.sys.id \in Range(createdIds(type))
            /\ record.sys = rawOf(type, record).sys
            /\ \A f \in DOMAIN rawOf(type, record).fields :
                 record.fields[f] = rawOf(type, record).fields[f]
            /\ DOMAIN record.fields \ {"image"} = DOMAIN rawOf(type, record).fields \ {"image"}

\* a listing and a lookup have both returned records made from raw entries
\* that carry a contentTypeId of their own
C18_Witness ==
  \E k, j \in DOMAIN calls :
    /\ done(k) /\ done(j)
    /\ isLookup(k) /\ ~isLookup(j)
    /\ Len(recordsOf(k)) = 1 /\ Len(recordsOf(j)) >= 1
    /\ rawOf(logicalType(k[1]), recordsOf(k)[1]).contentTypeId = "raw"
    /\ recordsOf(j)[1].contentTypeId = logicalType(j[1])

\* C19: a raw record that lacks an expected field makes no resolver reject
\* and no tool answer with an error: the completed handler answers with its
\* results.
C19_MissingFieldNeverThrows ==
  /\ \A k \in DOMAIN calls : done(k) => ~calls[k].ret.threw
  /\ handler.pc = "done" => (response.status = "json" /\ ~response.isError)

postMatches(q) ==
  SelectSeq(store["blogPost"],
            LAMBDA post : Has(post.fields, "slug") /\ includes(post.fields.slug, q))

\* C20: getPostBySlug(s) returns null when no blog post of the store has a
\* slug containing s, the first matching post stamped "blogPost" otherwise,
\* and null, without rejecting, when the remote call fails.
C20_FirstMatchOrNull ==
  \A k \in DOMAIN calls :
    (k[1] = "getPostBySlug" /\ done(k)) =>
      /\ ~calls[k].ret.threw
      /\ calls[k].ret.val =
           IF ~calls[k].fetchOk \/ postMatches(k[2]) = <<>> THEN Null
           ELSE [sys |-> postMatches(k[2])[1].sys, contentTypeId |-> "blogPost",
                 fields |-> postMatches(k[2])[1].fields]

\* of two posts whose slugs contain s the first has been returned, and
\* another call has returned null after its remote call failed
C20_Witness ==
  \E k, j \in DOMAIN calls :
    /\ k[1] = "getPostBySlug" /\ done(k) /\ calls[k].fetchOk
    /\ Len(postMatches(k[2])) >= 2
    /\ calls[k].ret.val.sys.id = postMatches(k[2])[1].sys.id
    /\ j[1] = "getPostBySlug" /\ done(j) /\ ~calls[j].fetchOk
    /\ postMatches(j[2]) # <<>>
    /\ calls[j].ret.val = Null

\* C23: a query tool called with no limit, or with a limit of 0 or less,
\* answers with the whole listing of its resolver, in order, and count is
\* the length of the listing.
C23_NoLimitNoTruncation ==
  (queryDone /\ (Has(handler.args, "limit") => handler.args.limit <= 0)) =>
    /\ response.status = "json"
    /\ [i \in 1..Len(response.body.data) |-> response.body.data[i].id]
         = idsOf(queryListing)
    /\ response.body.count = Len(queryListing)

\* a limit of 0 or less has left a listing of two or more items whole
C23_Witness ==
  /\ queryDone
  /\ Has(handler.args, "limit") /\ handler.args.limit <= 0
  /\ Len(queryListing) >= 2
  /\ response.body.count = Len(queryListing)

graphicsTitled(title) ==
  SelectSeq(store["landingPageGraphics"],
            LAMBDA g : Has(g.fields, "title") /\ g.fields.title = title)

\* C22: with a credential missing getLandingPageGraphicByTitle(title)
\* returns null and issues no remote call; with both present it issues one
\* call, for landing-page graphics whose title equals `title`, limit 1, and
\* returns null when the call fails or yields no item.
C22_NoCallWithoutCredentials ==
  \A k \in DOMAIN calls :
    k[1] = "getLandingPageGraphicByTitle" =>
      IF credentialsMissing(env)
      THEN /\ calls[k].requests = <<>>
           /\ done(k) => (~calls[k].ret.threw /\ calls[k].ret.val = Null)
      ELSE /\ Len(calls[k].requests) = 1
           /\ calls[k].requests[1].content_type = "landingPageGraphics"
           /\ calls[k].requests[1].filters = [title |-> k[2]]
           /\ ~Has(calls[k].requests[1], "match")
           /\ calls[k].requests[1].limit = 1
           /\ done(k) =>
                /\ ~calls[k].ret.threw
                /\ (~calls[k].fetchOk \/ graphicsTitled(k[2]) = <<>>) =>
                     calls[k].ret.val = Null
                /\ (calls[k].fetchOk /\ graphicsTitled(k[2]) # <<>>) =>
                     calls[k].ret.val.sys.id = graphicsTitled(k[2])[1].sys.id

\* without the access token a lookup has returned null, no call issued,
\* though the store holds a graphic of that title
C22_Witness ==
  \E k \in DOMAIN calls :
    /\ k[1] = "getLandingPageGraphicByTitle"
    /\ credentialsMissing(env)
    /\ done(k)
    /\ calls[k].requests = <<>>
    /\ calls[k].ret.val = Null
    /\ graphicsTitled(k[2]) # <<>>

\* the resolver calls of the completed handler
handlerCalls ==
  IF handler.tool = "query-eboard-members" THEN Range(eboardCalls(handler.args))
  ELSE IF handler.tool = "search-content" THEN DOMAIN calls
  ELSE Range(queryCalls(handler.tool, handler.args))

storeUnreachable == \A k \in handlerCalls : done(k) /\ ~calls[k].fetchOk

storeReached == \A k \in handlerCalls : done(k) /\ calls[k].fetchOk

\* the answer of a query tool that found nothing
emptyAnswer ==
  jsonResponse(
    [query |-> IF handler.tool = "query-eboard-members" THEN "eboard-members"
               ELSE queryName(handler.tool),
     parameters |->
       IF handler.tool = "query-eboard-members"
       THEN pick(handler.args, {"limit"}) @@ ("memberType" :> memberTypeOf(handler.args))
       ELSE queryParameters(handler.tool, handler.args),
     count |-> 0,
     data |-> <<>>])

\* the answer of a search that found nothing
emptyEnvelope ==
  jsonResponse(
    [searchQuery |-> handler.args.query,
     contentTypes |-> typesToSearch(handler.args),
     totalResults |-> 0,
     results |-> [key \in {resultKey(t) : t \in searchedTypes} |-> <<>>]])

\* no entry of a searched type in the store matches the query
nothingMatches ==
  \A t \in searchedTypes : \A i \in 1..Len(store[t]) : ~isMatch(store[t][i], t)

\* C21: a query tool or search-content answers a failed remote call exactly
\* as it answers a store that succeeds with no matching entry: the same
\* envelope with count 0 and no isError flag.
C21_FailureLooksLikeNoContent ==
  /\ (queryDone /\ (storeUnreachable \/ (storeReached /\ queryListing = <<>>))) =>
       response = emptyAnswer
  /\ (searchDone /\ (storeUnreachable \/ (storeReached /\ nothingMatches))) =>
       response = emptyEnvelope

====
